---- MODULE Spec2Model ----
(***************************************************************************)
(* Model of klaasnicolaas/action-inactivity-lock.                          *)
(*                                                                         *)
(* Spec      : run() with the two paging processors processIssues and      *)
(*             processPullRequests and checkRateLimit, as in               *)
(*             src/src/index.ts (lines 487-773).                           *)
(* SpecFetch : the admission check and the cursor-paged fetchThreads of    *)
(*             the GraphQL revision, whose implementation is not among     *)
(*             the sources and is modelled from spec.md sections 4.1, 4.2  *)
(*             and 4.6 and its tests.                                      *)
(* SpecFilter: filterItems of the GraphQL revision, modelled from spec.md  *)
(*             section 4.3 and its test.                                   *)
(* SpecLive, SpecReasons, SpecRerun : the actions of Spec, from narrower   *)
(*             initial states: with fairness, over every pair of lock      *)
(*             reason inputs, and followed by a second run.                *)
(*                                                                         *)
(* Every await of the code is one action: the request and its response.    *)
(* The synchronous code that follows an await up to the next await is part *)
(* of the same action, except that the for-loop over a page is unrolled    *)
(* one thread per step.                                                    *)
(***************************************************************************)
EXTENDS Integers, Sequences, FiniteSets, TLC

\* ---------------------------------------------------------------- bounds
NumThreads == 2     \* closed threads the remote repository holds
PerPage == 2        \* page size (perPage, 100 in the source), scaled down
MaxQuota == 6       \* largest remaining quota the remote starts with
MaxBuffer == 1      \* largest rate-limit-buffer input
GqlFirst == 2       \* search page size (first: 100 in the query), scaled down
MaxItems == 4       \* most threads the remote search matches
MaxLen == 4         \* longest list handed to filterItems

\* ------------------------------------------------------- program constants
MsPerDay == 86400000    \* 1000 * 60 * 60 * 24

\* ------------------------------------------------------------ input sets
Procs == {"issues", "prs"}
Callers == {"run", "fetch", "second"} \cup Procs   \* callers of checkRateLimit
NoStatus == [remaining |-> -1]              \* no status returned yet
NoFail == 0 - 1                               \* no rate limit request threw
NoRequests == [lists |-> 0, locks |-> 0]    \* nothing requested since a check
Days == {1, 2}                              \* days-inactive-* inputs
ElapsedChoices == {MsPerDay, MsPerDay + 1}  \* now - updated_at, in ms
Unset == <<>>                               \* an output key never set
Undefined == "<undefined>"                  \* an input read as undefined
LockReasons == {"off-topic", "too heated", "resolved", "spam"}
Resets == {3600}                            \* reset, epoch seconds
Buffers == 0..MaxBuffer
ThreadNumbers == 1..NumThreads

VARIABLES
    cfg,        \* the action inputs read at the top of run()
    threads,    \* remote: the closed threads of the repository, by number
    remaining,  \* remote: resources.core.remaining
    reset,      \* remote: resources.core.reset
    rpc,        \* position of run()
    ppc,        \* position of each processor
    page,       \* page parameter of each processor's current call
    data,       \* response data of the current page, per processor
    idx,        \* position of the for-loop in data, per processor
    locked,     \* lockedIssues / lockedPRs, per processor
    output,     \* core.setOutput values, per output key (Unset if never set)
    failed,     \* number of core.setFailed calls, per message prefix
    warnings,   \* core.warning messages emitted
    lockLog,    \* octokit.rest.issues.lock requests issued
    listLog,    \* list requests issued
    handed,     \* threads returned to a processor in a page response
    seen,       \* threads a processor's for-loop has iterated over
    status,     \* the status checkRateLimit last returned, per caller
    reqs,       \* list and lock requests issued so far, per processor
    quotaFail,  \* reqs of the caller when its rate limit request threw
    sinceCheck, \* requests of a processor since its last passing quota check
    fpc,        \* position of fetchThreads
    cursor,     \* cursor argument of the current fetchThreads call (0: none)
    allItems,   \* accumulator of fetchThreads
    pageInfo,   \* pageInfo of the last search response
    result,     \* the value fetchThreads returned
    gql,        \* remote: resources.graphql.remaining
    nItems,     \* remote: number of threads the search matches
    queries,    \* cursors of the search requests issued, in order
    fetchFail,  \* number of search requests issued when one threw
    fetchStop,  \* number of search requests issued at the rate limit stop
    lockParams, \* lockParams of the lock requests issued, per processor
    thrown,     \* number of errors thrown by requests and by the setup of run()
    runNo,      \* 1 in the first run of the action, 2 in a second run
    firstLocked,  \* threads the first run locked (set at the start of a second run)
    startLocked,  \* threads locked at the start of the current run
    threadsIn,  \* argument of filterItems
    filtered,   \* value filterItems returned (Unset before it returned)
    flpc        \* position of filterItems

vars == <<cfg, threads, remaining, reset, rpc, ppc, page, data, idx, locked,
          output, failed, warnings, lockLog, listLog, handed, seen, status,
          reqs, quotaFail, fpc, cursor, allItems, pageInfo, result, gql,
          nItems, queries, fetchFail, fetchStop, lockParams, thrown, runNo,
          firstLocked, startLocked, threadsIn, filtered, flpc, sinceCheck>>

remoteVars == <<threads, remaining, reset>>
procVars == <<ppc, page, data, idx, locked, output, handed, seen>>
histVars == <<status, reqs, quotaFail, sinceCheck>>
fetchVars == <<fpc, cursor, allItems, pageInfo, result, gql, nItems, queries,
               fetchFail, fetchStop>>
rerunVars == <<runNo, firstLocked, startLocked>>
filterVars == <<threadsIn, filtered, flpc>>

\* --------------------------------------------------------------- helpers
OutputKey_Shared(p) == "locked-issues"

OutputKey(p) == IF p = "issues" THEN "locked-issues" ELSE "locked-prs"

FailPrefix(p) == IF p = "issues" THEN "Failed to process issues"
                 ELSE "Failed to process pull requests"

DaysInactive(p) == IF p = "issues" THEN cfg.daysInactiveIssues
                   ELSE cfg.daysInactivePRs

\* new Date(reset * 1000).toUTCString()
UTCString(r) == <<"UTC", r * 1000>>

\* JSON.stringify of an array of {number, title} objects, as a sequence of
\* tokens: "[", the objects separated by ",", "]"
Tok(c) == [tok |-> c]

RECURSIVE JSONItems(_)
JSONItems(l) ==
    IF l = <<>> THEN <<>>
    ELSE IF Len(l) = 1 THEN <<l[1]>>
    ELSE <<l[1], Tok(",")>> \o JSONItems(Tail(l))

JSONStringify(l) == <<Tok("[")>> \o JSONItems(l) \o <<Tok("]")>>

\* remote listing of closed threads: issues.listForRepo returns issues and
\* pull requests, pulls.list returns pull requests only
Listing(p) ==
    LET all == [n \in ThreadNumbers |-> n]
    IN  IF p = "issues" THEN all
        ELSE SelectSeq(all, LAMBDA n : threads[n].isPR)

\* the slice per_page/page of a listing, with the fields the code reads
PageOf(p, pg) ==
    LET l == Listing(p)
        lo == (pg - 1) * PerPage + 1
        hi == IF pg * PerPage < Len(l) THEN pg * PerPage ELSE Len(l)
    IN  [i \in 1..(IF hi >= lo THEN hi - lo + 1 ELSE 0) |->
            LET n == l[lo + i - 1]
            IN  [number |-> n, title |-> threads[n].title,
                 pull_request |-> threads[n].isPR,
                 locked |-> threads[n].locked,
                 elapsed |-> threads[n].elapsed]]

\* ------------------------------------------------------------ checkRateLimit
ZeroStatus == [remaining |-> 0, resetTime |-> 0, resetTimeHumanReadable |-> <<>>]

OkStatus == [remaining |-> remaining, resetTime |-> reset,
             resetTimeHumanReadable |-> UTCString(reset)]

checkRateLimit_IgnoresFailure(ok) == OkStatus

\* the status checkRateLimit returns when the request succeeds (ok) or throws
checkRateLimit(ok) == IF ok THEN OkStatus ELSE ZeroStatus

checkRateLimitFailed(ok) ==
    IF ok THEN failed
    ELSE [failed EXCEPT !["Failed to check rate limit"] = @ + 1]

\* ------------------------------------------------------------------- Init
ThreadAttrs == [isPR : BOOLEAN, locked : BOOLEAN, elapsed : ElapsedChoices]

FailureMessages == {"Failed to check rate limit", "Failed to process issues",
                    "Failed to process pull requests", "Action failed with error",
                    "Failed to fetch issues and PRs using GraphQL"}

NoPageInfo == [hasNextPage |-> FALSE, endCursor |-> 0]

\* the state every run starts from, apart from the inputs and the remote
InitLocal ==
    /\ rpc = "start"
    /\ ppc = [p \in Procs |-> "idle"]
    /\ page = [p \in Procs |-> 1]
    /\ data = [p \in Procs |-> <<>>]
    /\ idx = [p \in Procs |-> 1]
    /\ locked = [p \in Procs |-> <<>>]
    /\ output = [k \in {"locked-issues", "locked-prs"} |-> Unset]
    /\ failed = [m \in FailureMessages |-> 0]
    /\ warnings = {}
    /\ lockLog = {}
    /\ listLog = {}
    /\ handed = [p \in Procs |-> {}]
    /\ seen = [p \in Procs |-> {}]
    /\ status = [c \in Callers |-> NoStatus]
    /\ reqs = [p \in Procs |-> 0]
    /\ sinceCheck = [p \in Procs |-> NoRequests]
    /\ quotaFail = [c \in Callers |-> NoFail]
    /\ cursor = 0
    /\ allItems = <<>>
    /\ pageInfo = NoPageInfo
    /\ result = <<>>
    /\ queries = <<>>
    /\ fetchFail = NoFail
    /\ fetchStop = NoFail
    /\ lockParams = {}
    /\ thrown = 0

\* the parts of the state that belong to a second run and to filterItems,
\* where neither takes part
InitIdle ==
    /\ runNo = 1
    /\ firstLocked = {}
    /\ startLocked = {n \in ThreadNumbers : threads[n].locked}
    /\ threadsIn = <<>>
    /\ filtered = Unset
    /\ flpc = "idle"

Init ==
    /\ cfg \in [rateLimitBuffer : Buffers, daysInactiveIssues : Days,
                daysInactivePRs : Days, lockReasonIssues : {"resolved"},
                lockReasonPRs : {"resolved"}]
    /\ \E attrs \in [ThreadNumbers -> ThreadAttrs] :
          threads = [n \in ThreadNumbers |->
                        [isPR |-> attrs[n].isPR, locked |-> attrs[n].locked,
                         elapsed |-> attrs[n].elapsed, title |-> <<"title", n>>]]
    /\ remaining \in 0..MaxQuota
    /\ reset \in Resets
    /\ InitLocal
    /\ InitIdle
    /\ fpc = "idle"
    /\ gql = 0
    /\ nItems = 0

\* -------------------------------------------------------------------- run
AdmissionPasses_AtBuffer(st) == st.remaining >= cfg.rateLimitBuffer

\* rateLimitStatus.remaining > rateLimitBuffer
AdmissionPasses(st) == st.remaining > cfg.rateLimitBuffer

TotalReqs == reqs["issues"] + reqs["prs"]

RunCaught_Rethrown == [pc |-> "raised", reports |-> 0]

\* the catch of run(): the error (an Error instance, as the toolkit and the
\* client throw) is reported with core.setFailed and run() returns
RunCaught == [pc |-> "failed", reports |-> 1]

\* run() up to its first await: read the inputs, getOctokit(token) and
\* context.repo, either of which may throw into the catch of run()
RunStart ==
    /\ rpc = "start"
    /\ \E ok \in BOOLEAN :
          IF ok
          THEN /\ rpc' = "admission"
               /\ UNCHANGED <<failed, thrown>>
          ELSE /\ rpc' = RunCaught.pc
               /\ failed' = [failed EXCEPT !["Action failed with error"] =
                                                    @ + RunCaught.reports]
               /\ thrown' = thrown + 1
    /\ UNCHANGED <<filterVars, rerunVars, fetchVars, cfg, remoteVars, procVars,
                   histVars, warnings, lockLog, listLog, lockParams>>

\* run(): await checkRateLimit, then either start both processors
\* (Promise.all) or warn and stop.
RunAdmission ==
    /\ rpc = "admission"
    /\ \E ok \in BOOLEAN :
          LET st == checkRateLimit(ok)
          IN  /\ failed' = checkRateLimitFailed(ok)
              /\ thrown' = IF ok THEN thrown ELSE thrown + 1
              /\ status' = [status EXCEPT !["run"] = st]
              /\ quotaFail' = IF ok THEN quotaFail
                              ELSE [quotaFail EXCEPT !["run"] = TotalReqs]
              /\ IF AdmissionPasses(st)
                 THEN /\ rpc' = "processing"
                      /\ ppc' = [p \in Procs |-> "check"]
                      /\ warnings' = warnings
                 ELSE /\ rpc' = "aborted"
                      /\ ppc' = ppc
                      /\ warnings' = warnings \cup
                            {[msg |-> "Initial rate limit too low, stopping processing."]}
    /\ UNCHANGED <<filterVars, rerunVars, fetchVars, cfg, remoteVars, page, data,
                   idx, locked, output, lockLog, listLog, handed, seen, reqs,
                   sinceCheck, lockParams>>

\* Promise.all resolves once both processors have returned
RunJoin ==
    /\ rpc = "processing"
    /\ \A p \in Procs : ppc[p] = "done"
    /\ rpc' = "done"
    /\ UNCHANGED <<filterVars, rerunVars, fetchVars, cfg, remoteVars, procVars,
                   histVars, failed, warnings, lockLog, listLog, lockParams,
                   thrown>>

\* ------------------------------------------------------------- processors
ProcStops_BelowOnly(st) == st.remaining < cfg.rateLimitBuffer

\* rateLimitStatus.remaining <= rateLimitBuffer
ProcStops(st) == st.remaining <= cfg.rateLimitBuffer

\* processIssues / processPullRequests: rate limit check before each page
ProcCheck(p) ==
    /\ ppc[p] = "check"
    /\ \E ok \in BOOLEAN :
          LET st == checkRateLimit(ok)
          IN  /\ failed' = checkRateLimitFailed(ok)
              /\ thrown' = IF ok THEN thrown ELSE thrown + 1
              /\ status' = [status EXCEPT ![p] = st]
              /\ quotaFail' = IF ok THEN quotaFail
                              ELSE [quotaFail EXCEPT ![p] = reqs[p]]
              /\ sinceCheck' = IF ProcStops(st) THEN sinceCheck
                               ELSE [sinceCheck EXCEPT ![p] = NoRequests]
              /\ IF ProcStops(st)
                 THEN /\ ppc' = [ppc EXCEPT ![p] = "done"]
                      /\ warnings' = warnings \cup
                            {[msg |-> "Rate limit exceeded, stopping further processing.",
                              by |-> p, until |-> st.resetTimeHumanReadable]}
                 ELSE /\ ppc' = [ppc EXCEPT ![p] = "list"]
                      /\ warnings' = warnings
    /\ UNCHANGED <<filterVars, rerunVars, fetchVars, cfg, remoteVars, rpc, page,
                   data, idx, locked, output, lockLog, listLog, handed, seen,
                   reqs, lockParams>>

\* the remote counter after one list or lock request of the action (the
\* rate limit request itself is not counted against the quota)
Consume(r) == IF r > 0 THEN r - 1 ELSE 0

MorePages_Always(d) == Len(d) >= 0

\* issues.data.length === perPage
MorePages(d) == Len(d) = PerPage

AfterLoopPc_SkipCheck(d) == IF MorePages(d) THEN "list" ELSE "done"

AfterLoopPc_NeverReturns(d) == IF MorePages(d) THEN "check" ELSE "loop"

\* the code after the for-loop: recurse for the next page when the page was
\* full, otherwise publish the output and return
AfterLoopPc(d) == IF MorePages(d) THEN "check" ELSE "done"

AfterLoopPage_SamePage(p, d) == page[p]

\* the page argument of the recursive call: page + 1
AfterLoopPage(p, d) == IF MorePages(d) THEN page[p] + 1 ELSE page[p]

AfterLoopOutput_EveryPage(p, d, l) ==
    [output EXCEPT ![OutputKey(p)] = JSONStringify(l)]

\* core.setOutput in the else branch after the loop
AfterLoopOutput(p, d, l) ==
    IF MorePages(d) THEN output
    ELSE [output EXCEPT ![OutputKey(p)] = JSONStringify(l)]

CatchPc_Retry(at) == at

\* the catch around the page, entered from the list request ("list") or
\* from a lock request ("loop"): report the failure and return
CatchPc(at) == "done"

\* await listForRepo / pulls.list for the current page
ProcList(p) ==
    /\ ppc[p] = "list"
    /\ remaining' = Consume(remaining)
    /\ reqs' = [reqs EXCEPT ![p] = @ + 1]
    /\ sinceCheck' = [sinceCheck EXCEPT ![p].lists = @ + 1]
    /\ listLog' = listLog \cup {[by |-> p, page |-> page[p]]}
    /\ \E ok \in BOOLEAN :
          IF ok
          THEN LET d == PageOf(p, page[p])
               IN  /\ data' = [data EXCEPT ![p] = d]
                   /\ idx' = [idx EXCEPT ![p] = 1]
                   /\ handed' = [handed EXCEPT ![p] = @ \cup {d[i] : i \in 1..Len(d)}]
                   /\ UNCHANGED <<failed, thrown>>
                   /\ IF d = <<>>
                      THEN /\ ppc' = [ppc EXCEPT ![p] = AfterLoopPc(d)]
                           /\ page' = [page EXCEPT ![p] = AfterLoopPage(p, d)]
                           /\ output' = AfterLoopOutput(p, d, locked[p])
                      ELSE /\ ppc' = [ppc EXCEPT ![p] = "loop"]
                           /\ UNCHANGED <<page, output>>
          ELSE /\ ppc' = [ppc EXCEPT ![p] = CatchPc("list")]
               /\ failed' = [failed EXCEPT ![FailPrefix(p)] = @ + 1]
               /\ thrown' = thrown + 1
               /\ UNCHANGED <<data, idx, page, output, handed>>
    /\ UNCHANGED <<filterVars, rerunVars, fetchVars, cfg, threads, reset, rpc,
                   locked, warnings, lockLog, seen, status, quotaFail,
                   lockParams>>

Eligible_IgnoresCategory(p, it) == ~it.locked

Eligible_IgnoresLocked(p, it) ==
    IF p = "issues" THEN ~it.pull_request ELSE TRUE

\* !issue.pull_request && !issue.locked   /   !pr.locked
Eligible(p, it) ==
    IF p = "issues" THEN ~it.pull_request /\ ~it.locked ELSE ~it.locked

\* daysDifference > daysInactive, with daysDifference = elapsed / MsPerDay
PastThreshold(p, it) == it.elapsed > DaysInactive(p) * MsPerDay

ManifestAfterLock_PushFirst(p, it, ok) ==
    Append(locked[p], [number |-> it.number, title |-> it.title])

\* lockedIssues / lockedPRs after the lock request for it returned (ok) or
\* threw: the push follows the await
ManifestAfterLock(p, it, ok) ==
    IF ok THEN Append(locked[p], [number |-> it.number, title |-> it.title])
    ELSE locked[p]

\* a truthy lock reason input: neither '' nor undefined
Truthy(r) == r \notin {"", Undefined}

LockReason(p) == IF p = "issues" THEN cfg.lockReasonIssues ELSE cfg.lockReasonPRs

LockParams_AlwaysReason(p, it) ==
    [issue_number |-> it.number, lock_reason |-> LockReason(p)]

\* lockParams: owner, repo (fixed, left out) and issue_number, with
\* lock_reason added when the reason input is truthy
LockParams(p, it) ==
    IF Truthy(LockReason(p))
    THEN [issue_number |-> it.number, lock_reason |-> LockReason(p)]
    ELSE [issue_number |-> it.number]

\* one iteration of the for-loop over the page
ProcEval(p) ==
    /\ ppc[p] = "loop"
    /\ idx[p] <= Len(data[p])
    /\ LET it == data[p][idx[p]]
           last == idx[p] = Len(data[p])
       IN  /\ seen' = [seen EXCEPT ![p] = @ \cup {it.number}]
           /\ IF Eligible(p, it) /\ PastThreshold(p, it)
              THEN \* await octokit.rest.issues.lock(lockParams)
                   /\ remaining' = Consume(remaining)
                   /\ reqs' = [reqs EXCEPT ![p] = @ + 1]
                   /\ sinceCheck' = [sinceCheck EXCEPT ![p].locks = @ + 1]
                   /\ lockParams' = lockParams \cup
                                       {[by |-> p, params |-> LockParams(p, it)]}
                   /\ \E ok \in BOOLEAN :
                        LET l == ManifestAfterLock(p, it, ok)
                        IN  /\ lockLog' = lockLog \cup
                                  {[by |-> p, number |-> it.number, ok |-> ok]}
                            /\ locked' = [locked EXCEPT ![p] = l]
                            /\ IF ok
                               THEN /\ threads' = [threads EXCEPT ![it.number].locked = TRUE]
                                    /\ idx' = [idx EXCEPT ![p] = @ + 1]
                                    /\ UNCHANGED <<failed, thrown>>
                                    /\ IF last
                                       THEN /\ ppc' = [ppc EXCEPT ![p] = AfterLoopPc(data[p])]
                                            /\ page' = [page EXCEPT ![p] = AfterLoopPage(p, data[p])]
                                            /\ output' = AfterLoopOutput(p, data[p], l)
                                       ELSE UNCHANGED <<ppc, page, output>>
                               ELSE \* the lock request throws: caught by the
                                    \* catch around the whole page
                                    /\ ppc' = [ppc EXCEPT ![p] = CatchPc("loop")]
                                    /\ failed' = [failed EXCEPT ![FailPrefix(p)] = @ + 1]
                                    /\ thrown' = thrown + 1
                                    /\ UNCHANGED <<threads, idx, page, output>>
              ELSE /\ idx' = [idx EXCEPT ![p] = @ + 1]
                   /\ IF last
                      THEN /\ ppc' = [ppc EXCEPT ![p] = AfterLoopPc(data[p])]
                           /\ page' = [page EXCEPT ![p] = AfterLoopPage(p, data[p])]
                           /\ output' = AfterLoopOutput(p, data[p], locked[p])
                      ELSE UNCHANGED <<ppc, page, output>>
                   /\ UNCHANGED <<threads, remaining, locked, failed, lockLog, reqs, sinceCheck,
                                  lockParams, thrown>>
    /\ UNCHANGED <<filterVars, rerunVars, fetchVars, cfg, reset, rpc, data,
                   warnings, listLog, handed, status, quotaFail>>

Next ==
    \/ RunStart
    \/ RunAdmission
    \/ RunJoin
    \/ \E p \in Procs : ProcCheck(p)
    \/ \E p \in Procs : ProcList(p)
    \/ \E p \in Procs : ProcEval(p)

Spec == Init /\ [][Next]_vars

TypeOK ==
    /\ rpc \in {"start", "admission", "processing", "aborted", "done", "failed"}
    /\ \A p \in Procs : ppc[p] \in {"idle", "check", "list", "loop", "done"}
    /\ remaining \in 0..MaxQuota
    /\ fpc \in {"idle", "admission", "aborted", "query", "check", "returned"}
    /\ flpc \in {"idle", "call", "returned"}

\* ------------------------------------------------------------- liveness
\* Every await of the code returns, with a result or an error, and the
\* synchronous code after it runs to the next await: an action that stays
\* enabled is eventually taken, for run() and for each processor.
Fairness ==
    /\ WF_vars(RunStart)
    /\ WF_vars(RunAdmission)
    /\ WF_vars(RunJoin)
    /\ \A p \in Procs :
          WF_vars(ProcCheck(p)) /\ WF_vars(ProcList(p)) /\ WF_vars(ProcEval(p))

\* runs with one threshold and the default lock reasons, over every remote
\* listing of unlocked threads, over low and high quotas and every buffer
InitLive ==
    /\ cfg \in [rateLimitBuffer : Buffers, daysInactiveIssues : {1},
                daysInactivePRs : {1}, lockReasonIssues : {"resolved"},
                lockReasonPRs : {"resolved"}]
    /\ \E attrs \in [ThreadNumbers -> [isPR : BOOLEAN, elapsed : ElapsedChoices]] :
          threads = [n \in ThreadNumbers |->
                        [isPR |-> attrs[n].isPR, locked |-> FALSE,
                         elapsed |-> attrs[n].elapsed, title |-> <<"title", n>>]]
    /\ remaining \in {0, MaxBuffer + 1, MaxQuota}
    /\ reset \in Resets
    /\ InitLocal
    /\ InitIdle
    /\ fpc = "idle"
    /\ gql = 0
    /\ nItems = 0

SpecLive == InitLive /\ [][Next]_vars /\ Fairness

\* ------------------------------------------------------ lock reason inputs
\* values of lock-reason-issues / lock-reason-prs: one of the four reasons,
\* '' when the input is not set, or undefined
ReasonInputs == LockReasons \cup {"", Undefined}

\* runs over every pair of lock reason inputs, on remotes whose threads are
\* all unlocked and past the threshold, with ample quota
InitReasons ==
    /\ cfg \in [rateLimitBuffer : {0}, daysInactiveIssues : {1},
                daysInactivePRs : {1}, lockReasonIssues : ReasonInputs,
                lockReasonPRs : ReasonInputs]
    /\ \E attrs \in [ThreadNumbers -> [isPR : BOOLEAN]] :
          threads = [n \in ThreadNumbers |->
                        [isPR |-> attrs[n].isPR, locked |-> FALSE,
                         elapsed |-> MsPerDay + 1, title |-> <<"title", n>>]]
    /\ remaining = MaxQuota
    /\ reset \in Resets
    /\ InitLocal
    /\ InitIdle
    /\ fpc = "idle"
    /\ gql = 0
    /\ nItems = 0

SpecReasons == InitReasons /\ [][Next]_vars

\* ------------------------------------------------------------ second run
\* The action is run again after a run has ended. Between the runs the
\* remote differs only by the locks the first run applied: the closed
\* threads and their update times are the same and the quota is back at
\* its starting value.
InitRerun ==
    /\ cfg \in [rateLimitBuffer : {0}, daysInactiveIssues : {1},
                daysInactivePRs : {1}, lockReasonIssues : {"resolved"},
                lockReasonPRs : {"resolved"}]
    /\ \E attrs \in [ThreadNumbers -> ThreadAttrs] :
          threads = [n \in ThreadNumbers |->
                        [isPR |-> attrs[n].isPR, locked |-> attrs[n].locked,
                         elapsed |-> attrs[n].elapsed, title |-> <<"title", n>>]]
    /\ remaining = MaxQuota
    /\ reset \in Resets
    /\ InitLocal
    /\ InitIdle
    /\ fpc = "idle"
    /\ gql = 0
    /\ nItems = 0

\* the first run has ended; run() is entered again
Rerun ==
    /\ runNo = 1
    /\ rpc \in {"aborted", "done", "failed"}
    /\ runNo' = 2
    /\ firstLocked' = {r.number : r \in {x \in lockLog : x.ok}}
    /\ startLocked' = {n \in ThreadNumbers : threads[n].locked}
    /\ remaining' = MaxQuota
    /\ rpc' = "start"
    /\ ppc' = [p \in Procs |-> "idle"]
    /\ page' = [p \in Procs |-> 1]
    /\ data' = [p \in Procs |-> <<>>]
    /\ idx' = [p \in Procs |-> 1]
    /\ locked' = [p \in Procs |-> <<>>]
    /\ output' = [k \in {"locked-issues", "locked-prs"} |-> Unset]
    /\ failed' = [m \in FailureMessages |-> 0]
    /\ warnings' = {}
    /\ lockLog' = {}
    /\ listLog' = {}
    /\ handed' = [p \in Procs |-> {}]
    /\ seen' = [p \in Procs |-> {}]
    /\ status' = [c \in Callers |-> NoStatus]
    /\ reqs' = [p \in Procs |-> 0]
    /\ sinceCheck' = [p \in Procs |-> NoRequests]
    /\ quotaFail' = [c \in Callers |-> NoFail]
    /\ lockParams' = {}
    /\ thrown' = 0
    /\ UNCHANGED <<filterVars, fetchVars, cfg, threads, reset>>

NextRerun ==
    \/ Rerun
    \/ RunStart
    \/ RunAdmission
    \/ RunJoin
    \/ \E p \in Procs : ProcCheck(p)
    \/ \E p \in Procs : ProcList(p)
    \/ \E p \in Procs : ProcEval(p)

SpecRerun == InitRerun /\ [][NextRerun]_vars

\* ======================================================================
\* fetchThreads (GraphQL revision): modelled from spec.md 4.2, 4.1 and the
\* tests of src/unnamed/part_001
\* ======================================================================
FetchFailPrefix == "Failed to fetch issues and PRs using GraphQL"

\* search.nodes of the page after cursor c: thread numbers, GqlFirst a page
SearchNodes(c) ==
    LET lo == c * GqlFirst + 1
        hi == IF (c + 1) * GqlFirst < nItems THEN (c + 1) * GqlFirst ELSE nItems
    IN  [i \in 1..(IF hi >= lo THEN hi - lo + 1 ELSE 0) |-> lo + i - 1]

\* search.pageInfo of the page after cursor c
SearchPageInfo(c) ==
    [hasNextPage |-> (c + 1) * GqlFirst < nItems,
     endCursor |-> IF (c + 1) * GqlFirst < nItems THEN c + 1 ELSE 0]

checkRateLimitFor_CoreOnly(resource, ok) ==
    IF ~ok THEN ZeroStatus
    ELSE [remaining |-> remaining,
          resetTime |-> reset, resetTimeHumanReadable |-> UTCString(reset)]

\* checkRateLimit(octokit, resource): the status for the named resource
checkRateLimitFor(resource, ok) ==
    IF ~ok THEN ZeroStatus
    ELSE [remaining |-> IF resource = "graphql" THEN gql ELSE remaining,
          resetTime |-> reset, resetTimeHumanReadable |-> UTCString(reset)]

FetchStops_BelowOnly(st) == st.remaining < cfg.rateLimitBuffer

\* remaining <= buffer: stop fetching
FetchStops(st) == st.remaining <= cfg.rateLimitBuffer

FetchResultOnError_Empty(acc) == <<>>

\* what fetchThreads returns when the search request threw
FetchResultOnError(acc) == acc

InitFetch ==
    /\ cfg \in [rateLimitBuffer : Buffers, daysInactiveIssues : {1},
                daysInactivePRs : {1}, lockReasonIssues : {"resolved"},
                lockReasonPRs : {"resolved"}]
    /\ threads = [n \in ThreadNumbers |->
                    [isPR |-> FALSE, locked |-> FALSE, elapsed |-> MsPerDay,
                     title |-> <<"title", n>>]]
    /\ remaining \in 0..MaxQuota
    /\ reset \in Resets
    /\ InitLocal
    /\ InitIdle
    /\ fpc = "admission"
    /\ gql \in 0..MaxQuota
    /\ nItems \in 0..MaxItems

\* run() of the GraphQL revision up to the fetch: the admission check on
\* the core resource, then fetchThreads or the warning
FetchAdmission ==
    /\ fpc = "admission"
    /\ \E ok \in BOOLEAN :
          LET st == checkRateLimitFor("core", ok)
          IN  /\ failed' = checkRateLimitFailed(ok)
              /\ thrown' = IF ok THEN thrown ELSE thrown + 1
              /\ status' = [status EXCEPT !["run"] = st]
              /\ quotaFail' = IF ok THEN quotaFail
                              ELSE [quotaFail EXCEPT !["run"] = 0]
              /\ IF AdmissionPasses(st)
                 THEN /\ fpc' = "query"
                      /\ warnings' = warnings
                 ELSE /\ fpc' = "aborted"
                      /\ warnings' = warnings \cup
                            {[msg |-> "Initial rate limit too low, stopping processing."]}
    /\ UNCHANGED <<filterVars, rerunVars, lockParams, cfg, remoteVars, rpc,
                   procVars, lockLog, listLog, reqs, sinceCheck, cursor, allItems, pageInfo,
                   result, gql, nItems, queries, fetchFail, fetchStop>>

Accumulate_LastPage(acc, nodes) == nodes

\* allItems.push(...nodes): the accumulator extended by the page, in order
Accumulate(acc, nodes) == acc \o nodes

\* await graphql(searchThreadsQuery, {queryString, cursor, headers})
FetchQuery ==
    /\ fpc = "query"
    /\ gql' = Consume(gql)
    /\ queries' = Append(queries, cursor)
    /\ \E ok \in BOOLEAN :
          IF ok
          THEN /\ allItems' = Accumulate(allItems, SearchNodes(cursor))
               /\ pageInfo' = SearchPageInfo(cursor)
               /\ fpc' = "check"
               /\ UNCHANGED <<result, failed, fetchFail, thrown>>
          ELSE /\ failed' = [failed EXCEPT ![FetchFailPrefix] = @ + 1]
               /\ result' = FetchResultOnError(allItems)
               /\ fetchFail' = Len(queries')
               /\ thrown' = thrown + 1
               /\ fpc' = "returned"
               /\ UNCHANGED <<allItems, pageInfo>>
    /\ UNCHANGED <<filterVars, rerunVars, lockParams, cfg, remoteVars, rpc,
                   procVars, lockLog, listLog, histVars, warnings, cursor,
                   nItems, fetchStop>>

\* await checkRateLimit(octokit, 'graphql') after the page, then stop,
\* recurse with the end cursor, or return
FetchCheck ==
    /\ fpc = "check"
    /\ \E ok \in BOOLEAN :
          LET st == checkRateLimitFor("graphql", ok)
          IN  /\ failed' = checkRateLimitFailed(ok)
              /\ thrown' = IF ok THEN thrown ELSE thrown + 1
              /\ status' = [status EXCEPT !["fetch"] = st]
              /\ quotaFail' = IF ok THEN quotaFail
                              ELSE [quotaFail EXCEPT !["fetch"] = Len(queries)]
              /\ IF FetchStops(st)
                 THEN /\ warnings' = warnings \cup
                            {[msg |-> "Rate limit exceeded, stopping further fetching.",
                              by |-> "fetch", until |-> st.resetTimeHumanReadable]}
                      /\ result' = allItems
                      /\ fetchStop' = Len(queries)
                      /\ fpc' = "returned"
                      /\ cursor' = cursor
                 ELSE IF pageInfo.hasNextPage
                 THEN /\ cursor' = pageInfo.endCursor
                      /\ fpc' = "query"
                      /\ UNCHANGED <<warnings, result, fetchStop>>
                 ELSE /\ result' = allItems
                      /\ fpc' = "returned"
                      /\ UNCHANGED <<warnings, cursor, fetchStop>>
    /\ UNCHANGED <<filterVars, rerunVars, lockParams, cfg, remoteVars, rpc,
                   procVars, lockLog, listLog, reqs, sinceCheck, allItems, pageInfo, gql,
                   nItems, queries, fetchFail>>

NextFetch ==
    \/ FetchAdmission
    \/ FetchQuery
    \/ FetchCheck

SpecFetch == InitFetch /\ [][NextFetch]_vars

\* ======================================================================
\* filterItems (GraphQL revision): modelled from spec.md 4.3 and the test
\* 'should filter issues and PRs' of src/unnamed/part_001
\* ======================================================================
\* __typename of a thread; "Other" stands for an unrecognized tag
TypeNames == {"Issue", "PullRequest", "Other"}

ThreadLists ==
    UNION {{[i \in 1..n |-> [number |-> i, typename |-> tags[i]]] :
               tags \in [1..n -> TypeNames]} : n \in 0..MaxLen}

Reverse(l) == [i \in 1..Len(l) |-> l[Len(l) + 1 - i]]

filterItems_Reversed(ts) ==
    [issuesList |-> Reverse(SelectSeq(ts, LAMBDA t : t.typename = "Issue")),
     pullRequestsList |->
         Reverse(SelectSeq(ts, LAMBDA t : t.typename = "PullRequest"))]

filterItems_IssuesUnfiltered(ts) ==
    [issuesList |-> ts,
     pullRequestsList |-> SelectSeq(ts, LAMBDA t : t.typename = "PullRequest")]

\* the threads tagged Issue and the threads tagged PullRequest, each in
\* input order; a thread with another tag is in neither list
filterItems(ts) ==
    [issuesList |-> SelectSeq(ts, LAMBDA t : t.typename = "Issue"),
     pullRequestsList |-> SelectSeq(ts, LAMBDA t : t.typename = "PullRequest")]

InitFilter ==
    /\ cfg = [rateLimitBuffer |-> 0, daysInactiveIssues |-> 1,
              daysInactivePRs |-> 1, lockReasonIssues |-> "resolved",
              lockReasonPRs |-> "resolved"]
    /\ threads = [n \in ThreadNumbers |->
                    [isPR |-> FALSE, locked |-> FALSE, elapsed |-> MsPerDay,
                     title |-> <<"title", n>>]]
    /\ remaining = MaxQuota
    /\ reset \in Resets
    /\ InitLocal
    /\ runNo = 1
    /\ firstLocked = {}
    /\ startLocked = {}
    /\ fpc = "idle"
    /\ gql = 0
    /\ nItems = 0
    /\ threadsIn \in ThreadLists
    /\ filtered = Unset
    /\ flpc = "call"

\* const { issuesList, pullRequestsList } = filterItems(threads)
FilterCall ==
    /\ flpc = "call"
    /\ filtered' = filterItems(threadsIn)
    /\ flpc' = "returned"
    /\ UNCHANGED <<threadsIn, rerunVars, fetchVars, cfg, remoteVars, rpc, procVars,
                   histVars, failed, warnings, lockLog, listLog, lockParams,
                   thrown>>

NextFilter == FilterCall

SpecFilter == InitFilter /\ [][NextFilter]_vars

\* ======================================================================
\* second rate limit check of run() (GraphQL revision): modelled from
\* spec.md 4.6. run() of the sources returns after Promise.all (RunJoin);
\* here it goes on to one more checkRateLimit, after the two processors of
\* the sources have returned.
\* ======================================================================
SecondCheckOutcome_Gating(st) ==
    IF st.remaining > cfg.rateLimitBuffer THEN "done" ELSE "aborted"

\* the position of run() after the second check: done, whatever it returned
SecondCheckOutcome(st) == "done"

\* Promise.all resolves once both processors have returned
RunJoinSecond ==
    /\ rpc = "processing"
    /\ \A p \in Procs : ppc[p] = "done"
    /\ rpc' = "second"
    /\ UNCHANGED <<filterVars, rerunVars, fetchVars, cfg, remoteVars, procVars,
                   histVars, failed, warnings, lockLog, listLog, lockParams,
                   thrown>>

\* await checkRateLimit(octokit) after the processors
RunSecondCheck ==
    /\ rpc = "second"
    /\ \E ok \in BOOLEAN :
          LET st == checkRateLimitFor("core", ok)
          IN  /\ failed' = checkRateLimitFailed(ok)
              /\ thrown' = IF ok THEN thrown ELSE thrown + 1
              /\ status' = [status EXCEPT !["second"] = st]
              /\ quotaFail' = IF ok THEN quotaFail
                              ELSE [quotaFail EXCEPT !["second"] = TotalReqs]
              /\ rpc' = SecondCheckOutcome(st)
    /\ UNCHANGED <<filterVars, rerunVars, fetchVars, cfg, remoteVars, procVars,
                   reqs, sinceCheck, warnings, lockLog, listLog, lockParams>>

NextSecond ==
    \/ RunStart
    \/ RunAdmission
    \/ RunJoinSecond
    \/ RunSecondCheck
    \/ \E p \in Procs : ProcCheck(p)
    \/ \E p \in Procs : ProcList(p)
    \/ \E p \in Procs : ProcEval(p)

SpecSecond == InitLive /\ [][NextSecond]_vars

Occurrences(l, t) == Cardinality({i \in 1..Len(l) : l[i] = t})

WellTagged(ts) ==
    \A i \in 1..Len(ts) : ts[i].typename \in {"Issue", "PullRequest"}

Before(l, x, y) == \E a, b \in 1..Len(l) : a < b /\ l[a] = x /\ l[b] = y

\* the output list of a recognized tag
ListOf(tag) ==
    IF tag = "Issue" THEN filtered.issuesList ELSE filtered.pullRequestsList

\* C26: filterItems leaves its input list as it was, and keeps the input
\* order within each output list: two input threads with the same tag are
\* in that tag's list in their input order, and every output list holds
\* input threads, unmodified, in input order.
C26_FilterKeepsInputAndOrder ==
    /\ [][threadsIn' = threadsIn]_vars
    /\ [](flpc = "returned" =>
            \A tag \in {"Issue", "PullRequest"} :
                /\ \A a, b \in 1..Len(threadsIn) :
                      (a < b /\ threadsIn[a].typename = tag
                             /\ threadsIn[b].typename = tag)
                          => Before(ListOf(tag), threadsIn[a], threadsIn[b])
                /\ \A i, j \in 1..Len(ListOf(tag)) :
                      i < j => Before(threadsIn, ListOf(tag)[i], ListOf(tag)[j])
                /\ \A i \in 1..Len(ListOf(tag)) :
                      Occurrences(threadsIn, ListOf(tag)[i]) = 1)

C26_Witness ==
    /\ flpc = "returned"
    /\ Len(threadsIn) = MaxLen
    /\ threadsIn[1].typename = "Issue"
    /\ threadsIn[2].typename = "PullRequest"
    /\ threadsIn[3].typename = "Issue"
    /\ threadsIn[4].typename = "PullRequest"
    /\ Len(filtered.issuesList) = 2

\* ======================================================================
\* Claims checked under SpecFetch
\* ======================================================================
\* the threads of the first k search pages, in page order
FirstPages(k) ==
    LET n == IF k * GqlFirst < nItems THEN k * GqlFirst ELSE nItems
    IN  [i \in 1..n |-> i]

SearchPages(n) == IF n = 0 THEN 1 ELSE (n + GqlFirst - 1) \div GqlFirst

\* C12: when no request fails and the quota stays above the buffer, the
\* fetcher requests the pages from the first to the first one that reports
\* no further page, one after the other, and returns the concatenation of
\* their items in page order: nothing lost, duplicated or reordered.
C12_FetchResultIsConcatenation ==
    /\ (fpc = "check" /\ fetchStop = NoFail)
          => allItems = FirstPages(Len(queries))
    /\ (fpc = "returned" /\ fetchFail = NoFail /\ fetchStop = NoFail)
          => /\ result = [i \in 1..nItems |-> i]
             /\ queries = [k \in 1..SearchPages(nItems) |-> k - 1]
             /\ ~pageInfo.hasNextPage

C12_Witness ==
    /\ fpc = "returned"
    /\ fetchFail = NoFail /\ fetchStop = NoFail
    /\ nItems = GqlFirst + 1
    /\ Len(queries) = 2
    /\ Len(result) = GqlFirst + 1

ThresholdMs(p) == DaysInactive(p) * MsPerDay

OwnCategory(p, it) == IF p = "issues" THEN ~it.pull_request ELSE it.pull_request

LockRequested(p, n) == \E r \in lockLog : r.by = p /\ r.number = n

InitialWarning == [msg |-> "Initial rate limit too low, stopping processing."]

\* C1: for every closed, unlocked thread handed to a category processor, a
\* lock request is issued for it if and only if its elapsed inactivity is
\* strictly greater than the threshold (elapsed > T * 86400000 ms).
C1_LockedIffPastThreshold ==
    \A p \in Procs :
        ppc[p] = "done" =>
            \A it \in handed[p] :
                (OwnCategory(p, it) /\ ~it.locked) =>
                    (LockRequested(p, it.number) <=> it.elapsed > ThresholdMs(p))

C4_NoRequestAtOrBelowBuffer ==
    [][TotalReqs' > TotalReqs => remaining > cfg.rateLimitBuffer]_vars

\* C5: a run that passed the admission check has published both output keys,
\* each as a JSON array, by the time it ends.
C5_BothOutputsPublished ==
    rpc = "done" =>
        \A k \in DOMAIN output :
            /\ output[k] # Unset
            /\ Head(output[k]) = Tok("[")
            /\ output[k][Len(output[k])] = Tok("]")

\* C6: every entry of a category's manifest (and of its published output) is
\* the {number, title} of a thread of that category that is past its
\* threshold and whose lock request was issued and returned successfully; a
\* thread whose lock request failed is in no manifest.
C6_ManifestSound ==
    \A p \in Procs :
        /\ \A i \in 1..Len(locked[p]) :
              LET e == locked[p][i]
              IN  /\ [by |-> p, number |-> e.number, ok |-> TRUE] \in lockLog
                  /\ (threads[e.number].isPR <=> p = "prs")
                  /\ e.title = threads[e.number].title
                  /\ threads[e.number].elapsed > ThresholdMs(p)
        /\ \A r \in lockLog :
              ~r.ok => \A i \in 1..Len(locked[r.by]) : locked[r.by][i].number # r.number
        /\ output[OutputKey(p)] \in {Unset, JSONStringify(locked[p])}

C6_Witness ==
    \E p \in Procs :
        /\ locked[p] # <<>>
        /\ \E r \in lockLog : r.by = p /\ ~r.ok

\* C7: when the run has ended, every thread whose lock request succeeded is
\* listed in the published output of its category.
C7_ManifestComplete ==
    rpc \in {"done", "aborted"} =>
        \A r \in lockLog :
            r.ok =>
                LET out == output[OutputKey(r.by)]
                IN  \E i \in 1..Len(out) :
                        out[i] = [number |-> r.number,
                                  title |-> threads[r.number].title]

\* C8: a failed lock request does not abort the batch: every thread after it
\* in the same category list is still evaluated.
C8_FailedLockDoesNotAbort ==
    \A p \in Procs :
        ppc[p] = "done" =>
            \A r \in lockLog :
                (r.by = p /\ ~r.ok) =>
                    \A it \in handed[p] : it.number \in seen[p]

\* C9: a rate limit request that throws is reported once and yields the zero
\* status; the guard that consumes it stops (admission aborts, the
\* processor returns) and its caller issues no further list or lock request.
C9_QuotaFailureStops ==
    /\ failed["Failed to check rate limit"]
          = Cardinality({c \in Callers : quotaFail[c] # NoFail})
    /\ \A c \in Callers :
          quotaFail[c] # NoFail =>
              /\ status[c] = [remaining |-> 0, resetTime |-> 0,
                              resetTimeHumanReadable |-> <<>>]
              /\ IF c = "run"
                 THEN rpc = "aborted" /\ TotalReqs = quotaFail[c]
                      /\ listLog = {} /\ lockLog = {}
                 ELSE ppc[c] = "done" /\ reqs[c] = quotaFail[c]

C9_Witness ==
    /\ cfg.rateLimitBuffer = 0
    /\ \E p \in Procs : quotaFail[p] # NoFail /\ reqs[p] > 1
    /\ remaining > 0

\* number of core.setFailed calls so far
Reports ==
    failed["Failed to check rate limit"] + failed["Failed to process issues"]
    + failed["Failed to process pull requests"] + failed["Action failed with error"]
    + failed["Failed to fetch issues and PRs using GraphQL"]

\* C15: run() never raises: an error thrown at any step (setup, rate limit
\* request, list request, lock request) is caught and reported exactly once
\* with core.setFailed, and run() returns; an error thrown in the setup of
\* run() ends the run as failed, reported once by the catch of run().
C15_RunNeverRaises ==
    /\ rpc # "raised"
    /\ Reports = thrown
    /\ rpc = "failed" <=> failed["Action failed with error"] > 0
    /\ rpc = "failed"
          => /\ failed["Action failed with error"] = 1
             /\ thrown = 1
             /\ listLog = {} /\ lockLog = {}

C15_Witness ==
    /\ rpc = "failed"
    /\ failed["Action failed with error"] = 1
    /\ thrown = 1

\* C18: the stages of a run are strictly ordered: a page is requested only
\* after the admission check has returned, and only while no lock request
\* has been issued, so that every page fetch precedes every lock request.
C18_StagesOrdered ==
    [][listLog' # listLog => (status["run"] # NoStatus /\ lockLog = {})]_vars

\* the phase of a run, read off the position of run(): between the
\* admission check and the joint completion of Promise.all, run() is in
\* the two processors
Phase ==
    CASE rpc = "start" -> "Idle"
      [] rpc = "admission" -> "CheckingQuota"
      [] rpc = "aborted" -> "Aborted"
      [] rpc = "processing" -> "ProcessingBoth"
      [] rpc = "done" -> "Done"
      [] rpc = "failed" -> "Failed"

PhaseEdges ==
    {<<"Idle", "CheckingQuota">>, <<"CheckingQuota", "Aborted">>,
     <<"CheckingQuota", "Fetching">>, <<"Fetching", "Classifying">>,
     <<"Classifying", "ProcessingBoth">>, <<"ProcessingBoth", "Done">>}
    \cup {<<ph, "Failed">> : ph \in {"Idle", "CheckingQuota", "Fetching",
                                      "Classifying", "ProcessingBoth"}}

\* C19: the phase of a run moves only along Idle -> CheckingQuota,
\* CheckingQuota -> Aborted, CheckingQuota -> Fetching -> Classifying ->
\* ProcessingBoth -> Done, or from a non-terminal phase to Failed; Done is
\* entered only when both processors have completed, and Aborted, Done and
\* Failed are never left.
C19_PhaseEdges ==
    [][/\ Phase' # Phase => <<Phase, Phase'>> \in PhaseEdges
       /\ (Phase' = "Done" /\ Phase # "Done") => \A p \in Procs : ppc[p] = "done"]_vars

ListsBy(p) == {l \in listLog : l.by = p}

LocksBy(p) == {r \in lockLog : r.by = p}

ManifestNumbers(p) == {locked[p][i].number : i \in 1..Len(locked[p])}

\* C21: under every interleaving of the two processors, a thread number
\* gets at most one lock request in a run and is in at most one manifest,
\* once: the issues processor requests locks for issues only and the pull
\* request processor for pull requests only.
C21_OneLockPerThread ==
    /\ \A r1, r2 \in lockLog : r1.number = r2.number => r1 = r2
    /\ \A p \in Procs :
          /\ reqs[p] = Cardinality(ListsBy(p)) + Cardinality(LocksBy(p))
          /\ Cardinality(ManifestNumbers(p)) = Len(locked[p])
    /\ \A r \in lockLog : threads[r.number].isPR <=> r.by = "prs"
    /\ ManifestNumbers("issues") \cap ManifestNumbers("prs") = {}

C21_Witness ==
    /\ LocksBy("issues") # {}
    /\ \E it \in handed["issues"] :
          /\ it.pull_request /\ ~it.locked
          /\ [by |-> "prs", number |-> it.number, ok |-> TRUE] \in lockLog
    /\ locked["issues"] # <<>> /\ locked["prs"] # <<>>

\* the manifest a processor builds when it runs alone to completion: the
\* threads of its listing, in listing order, that are of its category,
\* unlocked at the start of the run and past the threshold
SerialManifest(p) ==
    LET sel == SelectSeq(Listing(p),
                   LAMBDA n : /\ (threads[n].isPR <=> p = "prs")
                              /\ n \notin startLocked
                              /\ threads[n].elapsed > ThresholdMs(p))
    IN  [i \in 1..Len(sel) |-> [number |-> sel[i], title |-> threads[sel[i]].title]]

\* a step of processor p
Stepped(p) ==
    ppc'[p] # ppc[p] \/ idx'[p] # idx[p] \/ reqs'[p] # reqs[p]

\* C22: the processors do not interfere. A step of one processor leaves
\* the other's manifest and output key as they are, and when no request
\* fails and no rate limit check stops a processor, the run ends under
\* every interleaving with the lock requests, manifests and outputs of the
\* run in which the issues processor completes before the other starts.
C22_NoInterference ==
    /\ [](( rpc = "done" /\ thrown = 0 /\ warnings = {}) =>
            \A p \in Procs :
                /\ locked[p] = SerialManifest(p)
                /\ output[OutputKey(p)] = JSONStringify(SerialManifest(p))
                /\ LocksBy(p) = {[by |-> p, number |-> SerialManifest(p)[i].number,
                                  ok |-> TRUE] : i \in 1..Len(SerialManifest(p))})
    /\ [][\A p, q \in Procs :
            (p # q /\ Stepped(p) /\ ~Stepped(q)) =>
                /\ locked'[q] = locked[q]
                /\ output'[OutputKey(q)] = output[OutputKey(q)]]_vars

C22_Witness ==
    /\ rpc = "done" /\ thrown = 0 /\ warnings = {}
    /\ \A p \in Procs : locked[p] # <<>> /\ output[OutputKey(p)] # Unset
    /\ \E l \in listLog : l.page = 2

\* C23: a processor requests its pages one at a time and in order: the
\* pages requested so far are 1..n, each once; page k + 1 is requested only
\* after the response for page k was received, found full and walked
\* through, with the page number of that call plus one.
C23_PagesSequential ==
    /\ [](\A p \in Procs :
            LET n == Cardinality(ListsBy(p))
            IN  /\ {l.page : l \in ListsBy(p)} = 1..n
                /\ reqs[p] - Cardinality(LocksBy(p)) = n
                /\ page[p] \in {n, n + 1} \ {0})
    /\ [][\A p \in Procs :
            reqs'[p] - Cardinality(LocksBy(p)') > reqs[p] - Cardinality(LocksBy(p)) =>
                /\ ListsBy(p)' = ListsBy(p) \cup {[by |-> p, page |-> page[p]]}
                /\ [by |-> p, page |-> page[p]] \notin listLog
                /\ page[p] > 1 =>
                      /\ [by |-> p, page |-> page[p] - 1] \in listLog
                      /\ Len(data[p]) = PerPage
                      /\ idx[p] = Len(data[p]) + 1]_vars

C23_Witness ==
    \E p \in Procs :
        /\ [by |-> p, page |-> 2] \in listLog
        /\ data[p] = <<>>
        /\ LocksBy(p) # {}
        /\ output[OutputKey(p)] # Unset

\* C25: nothing is retried. A processor whose list or lock request failed
\* has returned, having reported one failure, and a caller whose rate limit
\* request failed has stopped; a processor that has returned issues no
\* further request, so a thread whose lock request failed gets no second
\* lock request in the run.
C25_NothingRetried ==
    /\ [](/\ \A r \in lockLog :
               ~r.ok => (/\ ppc[r.by] = "done"
                         /\ \A r2 \in lockLog : r2.number = r.number => r2 = r)
          /\ \A c \in Procs :
               /\ failed[FailPrefix(c)] <= 1
               /\ (failed[FailPrefix(c)] = 1 => ppc[c] = "done")
               /\ (quotaFail[c] # NoFail => ppc[c] = "done")
          /\ (quotaFail["run"] # NoFail => rpc = "aborted")
          /\ failed["Failed to check rate limit"]
                = Cardinality({c \in Callers : quotaFail[c] # NoFail}))
    /\ [][/\ \A p \in Procs :
              ppc[p] = "done" => (ppc'[p] = "done" /\ reqs'[p] = reqs[p])
          /\ (TotalReqs' > TotalReqs =>
                  \E q \in Procs : /\ reqs'[q] = reqs[q] + 1
                                    /\ ppc[q] \in {"list", "loop"})]_vars

C25_Witness ==
    /\ rpc = "done"
    /\ remaining > cfg.rateLimitBuffer
    /\ \E r \in lockLog : ~r.ok
    /\ \E p \in Procs : failed[FailPrefix(p)] = 1 /\ LocksBy(p) = {}

\* C27: a thread that a page response reports as locked gets no lock
\* request from the processor it was handed to and is in no manifest,
\* whatever its inactivity; every lock request is for a thread that was
\* handed to its processor as unlocked.
C27_LockedNeverLocked ==
    /\ \A p \in Procs :
          \A it \in handed[p] :
              it.locked => /\ ~LockRequested(p, it.number)
                           /\ it.number \notin ManifestNumbers(p)
    /\ \A r \in lockLog :
          /\ r.number \notin startLocked
          /\ \E it \in handed[r.by] : it.number = r.number /\ ~it.locked
    /\ \A p \in Procs : ManifestNumbers(p) \cap startLocked = {}

C27_Witness ==
    \E p \in Procs :
        /\ ppc[p] = "done"
        /\ output[OutputKey(p)] # Unset
        /\ \E it \in handed[p] :
              /\ it.locked
              /\ OwnCategory(p, it)
              /\ it.elapsed > ThresholdMs(p)
              /\ it.number \in seen[p]

CategoryLocks(p) == {r \in lockLog : threads[r.number].isPR <=> p = "prs"}

\* C28: an output key is set at most once per run and only by a processor
\* that has returned after evaluating every item it was handed, each of
\* its lock requests having succeeded; once the key is set, its value
\* stays, no lock request for that category is issued and nothing is
\* appended to its manifest.
C28_OutputIsLast ==
    /\ [](\A p \in Procs :
            output[OutputKey(p)] # Unset =>
                /\ ppc[p] = "done"
                /\ output[OutputKey(p)] = JSONStringify(locked[p])
                /\ \A it \in handed[p] : it.number \in seen[p]
                /\ \A r \in LocksBy(p) : r.ok)
    /\ [][\A p \in Procs :
            /\ output[OutputKey(p)] # Unset =>
                  /\ output'[OutputKey(p)] = output[OutputKey(p)]
                  /\ locked'[p] = locked[p]
                  /\ reqs'[p] = reqs[p]
                  /\ CategoryLocks(p)' = CategoryLocks(p)
            /\ output'[OutputKey(p)] # output[OutputKey(p)] =>
                  /\ output[OutputKey(p)] = Unset
                  /\ ppc[p] \in {"list", "loop"}
                  /\ ppc'[p] = "done"]_vars

C28_Witness ==
    \E p, q \in Procs :
        /\ p # q
        /\ output[OutputKey(p)] # Unset
        /\ Len(locked[p]) >= 1
        /\ output[OutputKey(q)] = Unset
        /\ ppc[q] = "loop"
        /\ LocksBy(q) # {}

Checked(p) == ppc[p] = "check" /\ ppc'[p] # "check"

Listed(p) == ListsBy(p)' # ListsBy(p)

\* C29: a processor's list request is its next remote request after a
\* quota check of its own that returned remaining > buffer, with no
\* other request of that processor in between; a processor whose quota
\* check returned remaining <= buffer has returned and issues neither a
\* list request nor a lock request afterwards.
C29_CheckBeforeList ==
    /\ [](\A p \in Procs :
            /\ ppc[p] = "list" => status[p].remaining > cfg.rateLimitBuffer
            /\ (status[p] # NoStatus
                   /\ status[p].remaining <= cfg.rateLimitBuffer) =>
                  ppc[p] = "done")
    /\ [][\A p \in Procs :
            /\ Checked(p) =>
                  /\ reqs'[p] = reqs[p]
                  /\ ~Listed(p)
                  /\ LocksBy(p)' = LocksBy(p)
                  /\ IF status'[p].remaining > cfg.rateLimitBuffer
                     THEN ppc'[p] = "list"
                     ELSE ppc'[p] = "done"
            /\ (ppc'[p] = "list" /\ ppc[p] # "list") => Checked(p)
            /\ Listed(p) =>
                  /\ ppc[p] = "list"
                  /\ status[p].remaining > cfg.rateLimitBuffer
                  /\ status'[p] = status[p]
                  /\ reqs'[p] = reqs[p] + 1
            /\ (ppc[p] = "list" /\ Stepped(p)) => Listed(p)
            /\ (ppc[p] = "done" /\ status[p].remaining <= cfg.rateLimitBuffer) =>
                  /\ ~Listed(p)
                  /\ LocksBy(p)' = LocksBy(p)
                  /\ reqs'[p] = reqs[p]]_vars

C29_Witness ==
    \E p \in Procs :
        /\ ppc[p] = "done"
        /\ page[p] = 2
        /\ ListsBy(p) = {[by |-> p, page |-> 1]}
        /\ LocksBy(p) # {}
        /\ status[p].remaining >= 0
        /\ status[p].remaining <= cfg.rateLimitBuffer
        /\ \E w \in warnings : w.by = p

LocksOnPage(p) ==
    {r \in LocksBy(p) : \E i \in 1..Len(data[p]) : data[p][i].number = r.number}

\* C30: the quota is checked once per page and not once per lock: since
\* its last passing quota check a processor has issued at most one list
\* request and at most PerPage lock requests (at most PerPage + 1
\* requests), a lock request is never preceded by a check of its own, and
\* when a processor checks again it has issued exactly one list request
\* and the lock requests of that page since the check before.
C30_RequestsPerCheck ==
    /\ [](\A p \in Procs :
            /\ sinceCheck[p].lists <= 1
            /\ sinceCheck[p].locks <= PerPage
            /\ sinceCheck[p].lists + sinceCheck[p].locks <= PerPage + 1
            /\ sinceCheck[p].locks > 0 => sinceCheck[p].lists = 1
            /\ ppc[p] = "list" => sinceCheck[p] = NoRequests
            /\ ppc[p] = "loop" =>
                  /\ sinceCheck[p].lists = 1
                  /\ sinceCheck[p].locks = Cardinality(LocksOnPage(p))
                  /\ sinceCheck[p].locks < idx[p])
    /\ [][\A p \in Procs :
            /\ (Checked(p) /\ ListsBy(p) # {}) =>
                  /\ sinceCheck[p].lists = 1
                  /\ sinceCheck[p].locks = Cardinality(LocksOnPage(p))
                  /\ Len(data[p]) = PerPage
            /\ LocksBy(p)' # LocksBy(p) =>
                  /\ ppc[p] = "loop"
                  /\ status'[p] = status[p]
                  /\ sinceCheck'[p].locks = sinceCheck[p].locks + 1
                  /\ sinceCheck'[p].lists = sinceCheck[p].lists]_vars

C30_Witness ==
    \E p \in Procs :
        /\ ppc[p] = "check"
        /\ page[p] = 2
        /\ sinceCheck[p] = [lists |-> 1, locks |-> PerPage]
        /\ \A r \in LocksBy(p) : r.ok

\* ======================================================================
\* Claims checked under SpecLive
\* ======================================================================
\* pages a processor requests of a listing of n threads: the full pages,
\* and the page after them (short, or empty when n is a multiple of PerPage)
LastPage(n) == n \div PerPage + 1

\* C11: the page loop of a processor terminates: it requests no page past
\* the first page that is not full, which exists for every finite listing
\* (an empty page when the number of threads is a multiple of the page
\* size), and a processor that was started eventually returns.
C11_PagingTerminates ==
    /\ [](\A r \in listLog : r.page <= LastPage(Len(Listing(r.by))))
    /\ \A p \in Procs : (ppc[p] = "check") ~> (ppc[p] = "done")

C11_Witness ==
    \E p \in Procs :
        /\ ppc[p] = "done"
        /\ Len(Listing(p)) = PerPage
        /\ [by |-> p, page |-> 2] \in listLog
        /\ output[OutputKey(p)] # Unset
        /\ failed[FailPrefix(p)] = 0

\* C20: every run terminates: when every request returns, run() eventually
\* reaches Aborted, Done or Failed, however the two processors interleave.
C20_RunTerminates == <>(rpc \in {"aborted", "done", "failed"})

C20_Witness ==
    /\ rpc = "done"
    /\ \A p \in Procs : \E r \in lockLog : r.by = p
    /\ \E r \in listLog : r.page = 2
    /\ thrown = 0

\* ======================================================================
\* Claims checked under SpecReasons
\* ======================================================================
\* C13: every lock request carries a lock_reason field if and only if the
\* reason configured for its category is non-empty (neither '' nor
\* undefined), and the field then equals the configured value, one of
\* off-topic, too heated, resolved, spam.
C13_LockReasonIffConfigured ==
    /\ \A r \in lockLog :
          \E q \in lockParams : q.by = r.by /\ q.params.issue_number = r.number
    /\ \A q \in lockParams :
          LET configured == IF q.by = "issues" THEN cfg.lockReasonIssues
                            ELSE cfg.lockReasonPRs
          IN  /\ ("lock_reason" \in DOMAIN q.params)
                     <=> (configured # "" /\ configured # Undefined)
              /\ ("lock_reason" \in DOMAIN q.params)
                     => /\ q.params.lock_reason = configured
                        /\ q.params.lock_reason \in LockReasons

C13_Witness ==
    /\ cfg.lockReasonIssues = "too heated"
    /\ cfg.lockReasonPRs = ""
    /\ \E q \in lockParams : q.by = "issues" /\ "lock_reason" \in DOMAIN q.params
    /\ \E q \in lockParams : q.by = "prs" /\ "lock_reason" \notin DOMAIN q.params

\* ======================================================================
\* Claims checked under SpecRerun
\* ======================================================================
LockedNow == {n \in ThreadNumbers : threads[n].locked}

\* threads a run can still lock: unlocked at its start and past the
\* threshold of their category
Leftover ==
    {n \in ThreadNumbers \ startLocked :
        threads[n].elapsed > ThresholdMs(IF threads[n].isPR THEN "prs" ELSE "issues")}

\* the second run requests no lock for a thread the first run locked and
\* lists none in its manifests and outputs
NoRelock ==
    /\ \A r \in lockLog : r.number \notin firstLocked
    /\ \A p \in Procs :
          /\ \A i \in 1..Len(locked[p]) : locked[p][i].number \notin firstLocked
          /\ \A i \in 1..Len(output[OutputKey(p)]) :
                LET e == output[OutputKey(p)][i]
                IN  "number" \in DOMAIN e => e.number \notin firstLocked

====
